---- MODULE Spec2Model ----
(***************************************************************************)
(* Hebrew inverse text normalization: the weighted transducers of the      *)
(* taggers (time, date, tokenize_and_classify), of the measure verbalizer  *)
(* and of graph_utils, modelled as relations on symbol sequences.          *)
(*                                                                         *)
(* A string is a sequence of symbols.  A symbol is one character (" ",     *)
(* "{", a digit, ...) or one atomic lexeme: a Hebrew word or clitic in     *)
(* transliteration ("shesh", "be"), or a tag keyword ("hours:", "time").   *)
(* A transducer T is an operator T(s, R): R is a set of configurations     *)
(* [pos, out, w] (next input position in s, output so far, weight so far,  *)
(* in hundredths) and T(s, R) the configurations after one traversal of T. *)
(* Concatenation A + B is B(s, A(s, R)), union is set union.               *)
(***************************************************************************)
EXTENDS Integers, Sequences, FiniteSets, TLC

VARIABLES
    whitelist,  \* the whitelist lexicon ClassifyFst was constructed with
    fst,        \* the name of the grammar under test
    pc,         \* "ready" once the grammar is built, then the step last taken
    text,       \* the input string
    paths,      \* the accepting paths of the last transduction, a set of [out, w]
    console,    \* what apply_fst printed, one record per call
    far_files,  \* the he_itn.far file of each cache directory, or NoFile
    calls       \* the ClassifyFst constructions so far and what each one did

vars == <<whitelist, fst, pc, text, paths, console, far_files, calls>>

\* ------------------------------------------------------------ bounds
\* longest whitespace run the inputs put between (or around) words
MaxWs == 2
\* longest sentence, in symbols, given to the sentence-level classifier
MaxLen == 4
\* longest field value of a tagged measure token
MaxVal == 2
\* number of ClassifyFst constructions in one run
MaxBuilds == 2
\* number of apply_fst calls in one run
MaxCalls == 2

\* ------------------------------------------------------- characters
SP == " "
NBSP == "nbsp"
QUOTE == "\""
LBRACE == "{"
RBRACE == "}"

NEMO_NON_BREAKING_SPACE == NBSP
NEMO_SPACE == SP
NEMO_WHITE_SPACE == {SP, "\t", "\n", "\r", NBSP}
NEMO_DIGIT == {"0", "1", "2", "3", "4", "5", "6", "7", "8", "9"}

Digit(d) == <<"0", "1", "2", "3", "4", "5", "6", "7", "8", "9">>[d + 1]
\* decimal numeral of n < 10000, no leading zero
Numeral(n) ==
    IF n < 10 THEN <<Digit(n)>>
    ELSE IF n < 100 THEN <<Digit(n \div 10), Digit(n % 10)>>
    ELSE IF n < 1000 THEN <<Digit(n \div 100), Digit((n \div 10) % 10), Digit(n % 10)>>
    ELSE <<Digit(n \div 1000), Digit((n \div 100) % 10), Digit((n \div 10) % 10), Digit(n % 10)>>

\* ------------------------------------------------- transducer algebra
Start == {[pos |-> 1, out |-> <<>>, w |-> 0]}

Match(s, p, a) == p + Len(a) - 1 <= Len(s) /\ SubSeq(s, p, p + Len(a) - 1) = a

\* pynutil.insert(a)
insert(a, R) == {[r EXCEPT !.out = @ \o a] : r \in R}
\* pynutil.delete(a)
delete(a, s, R) == {[r EXCEPT !.pos = @ + Len(a)] : r \in {q \in R : Match(s, q.pos, a)}}
\* pynini.cross(a, b)
cross(a, b, s, R) ==
    {[r EXCEPT !.pos = @ + Len(a), !.out = @ \o b] : r \in {q \in R : Match(s, q.pos, a)}}
\* pynini.accep(a)
accep(a, s, R) == cross(a, a, s, R)
\* pynutil.add_weight(T, k), applied to the configurations T produced
add_weight(k, R) == {[r EXCEPT !.w = @ + k] : r \in R}
\* pynini.string_map / string_file: T is a set of <<input, output, weight>>
string_map(T, s, R) ==
    UNION {add_weight(e[3], cross(e[1], e[2], s, R)) : e \in T}
\* one character of class C, deleted
delete_char(C, s, R) ==
    {[r EXCEPT !.pos = @ + 1] : r \in {q \in R : q.pos <= Len(s) /\ s[q.pos] \in C}}
\* one character satisfying a class, copied
accep_char(C, s, R) ==
    {[r EXCEPT !.pos = @ + 1, !.out = Append(@, s[r.pos])] :
        r \in {q \in R : q.pos <= Len(s) /\ s[q.pos] \in C}}
\* one character outside class C, copied
accep_not(C, s, R) ==
    {[r EXCEPT !.pos = @ + 1, !.out = Append(@, s[r.pos])] :
        r \in {q \in R : q.pos <= Len(s) /\ s[q.pos] \notin C}}

\* the accepting paths of s through a transducer that ended in R
Accepting(s, R) ==
    {[out |-> r.out, w |-> r.w] : r \in {q \in R : q.pos = Len(s) + 1}}

\* pynini.shortestpath: the accepting paths of least weight
shortestpath(P) == {p \in P : \A q \in P : p.w <= q.w}

\* ------------------------------------------------------ graph_utils
RECURSIVE delete_space(_, _)
delete_space(s, R) ==
    IF R = {} THEN {} ELSE R \cup delete_space(s, delete_char(NEMO_WHITE_SPACE, s, R))

delete_and(s, R) == cross(<<"ve">>, <<>>, s, R)

delete_zero_or_one_space(s, R) == R \cup delete_char(NEMO_WHITE_SPACE, s, R)

insert_space(R) == insert(<<SP>>, R)

delete_extra_space(s, R) ==
    insert(<<SP>>, delete_space(s, delete_char(NEMO_WHITE_SPACE, s, R)))

\* ------------------------------------------ lexicons (data files, cardinal)
\* utils.integer_to_text(x, only_fem=True)[0]: the feminine reading of x,
\* for the numbers of the bounded lexicon
FemNumbers == {1, 2, 3, 4, 5, 6, 7, 8, 9, 10, 11, 12, 20, 23}
integer_to_text(x) ==
    CASE x = 1 -> <<"achat">>
      [] x = 2 -> <<"shtayim">>
      [] x = 3 -> <<"shalosh">>
      [] x = 4 -> <<"arba">>
      [] x = 5 -> <<"chamesh">>
      [] x = 6 -> <<"shesh">>
      [] x = 7 -> <<"sheva">>
      [] x = 8 -> <<"shmone">>
      [] x = 9 -> <<"tesha">>
      [] x = 10 -> <<"eser">>
      [] x = 11 -> <<"achat", SP, "esre">>
      [] x = 12 -> <<"shteym", SP, "esre">>
      [] x = 20 -> <<"esrim">>
      [] x = 23 -> <<"esrim", SP, "ve", "shalosh">>

\* CardinalFst().graph_no_exception: a number's reading to its digits
graph_no_exception == {<<integer_to_text(x), Numeral(x), 0>> : x \in FemNumbers}

\* data/prefix.tsv: the clitic prefixes, each mapped to itself
prefix_tsv == {<<<<"be">>, <<"be">>, 0>>, <<<<"ha">>, <<"ha">>, 0>>, <<<<"le">>, <<"le">>, 0>>}

\* data/time/time_suffix.tsv: the time-of-day phrases
time_suffix_tsv ==
    { <<<<"baboker">>, <<"boker">>, 0>>,
      <<<<"batsohorayim">>, <<"tsohorayim">>, 0>>,
      <<<<"acharey", SP, "hatsohorayim">>, <<"tsohorayim">>, 0>>,
      <<<<"baerev">>, <<"erev">>, 0>> }

\* data/time/to_hour.tsv: the hour named after "to", already decremented
to_hour_tsv ==
    {<<integer_to_text(x), Numeral(IF x = 1 THEN 12 ELSE x - 1), 0>> : x \in 1..12}
        \cup {<<<<"chatsot">>, <<"2", "3">>, 0>>}

\* data/time/minute_to.tsv: two-digit minutes N to 60 - N
minute_to_tsv ==
    {<<<<Digit(n \div 10), Digit(n % 10)>>,
       <<Digit((60 - n) \div 10), Digit((60 - n) % 10)>>, 0>> : n \in 1..59}

\* A @ B for two lexicon relations
Compose(A, B) ==
    UNION {{<<a[1], b[2], a[3] + b[3]>> : b \in {e \in B : e[1] = a[2]}} : a \in A}

\* ---------------------------------------------------------- TimeFst
to_hour_graph(s, R) == string_map(to_hour_tsv, s, R)
minute_to_graph == minute_to_tsv
suffix_graph(s, R) == string_map(time_suffix_tsv, s, R)

time_prefix(s, R) == string_map(prefix_tsv, s, R)
time_prefix_graph(s, R) ==
    insert_space(insert(<<QUOTE>>, time_prefix(s, insert(<<"prefix:", SP, QUOTE>>, R))))

optional_time_prefix_graph(s, R) == R \cup time_prefix_graph(s, R)

graph_minute_verbose_map ==
    { <<<<"shloshet", SP, "rivey">>, <<"4", "5">>, 0>>,
      <<<<"chetsi">>, <<"3", "0">>, 0>>,
      <<<<"reva">>, <<"1", "5">>, 0>>,
      <<<<"esrim">>, <<"2", "0">>, 0>>,
      <<<<"asara">>, <<"1", "0">>, 0>>,
      <<<<"chamisha">>, <<"0", "5">>, 0>>,
      <<<<"daka">>, <<"0", "1">>, 0>>,
      <<<<"shtey">>, <<"0", "2">>, 0>> }
graph_minute_verbose(s, R) == string_map(graph_minute_verbose_map, s, R)

graph_minute_to_verbose_map ==
    { <<<<"reva">>, <<"4", "5">>, 0>>,
      <<<<"asara">>, <<"5", "0">>, 0>>,
      <<<<"chamisha">>, <<"5", "5">>, 0>>,
      <<<<"esrim">>, <<"4", "0">>, 0>>,
      <<<<"esrim", SP, "ve", "chamisha">>, <<"3", "5">>, 0>>,
      <<<<"daka">>, <<"5", "9">>, 0>> }
graph_minute_to_verbose(s, R) == string_map(graph_minute_to_verbose_map, s, R)

\* CardinalFst().graph_no_exception with weight -0.7
time_cardinal == {<<e[1], e[2], e[3] - 70>> : e \in graph_no_exception}

labels_hour == {integer_to_text(x) : x \in FemNumbers \cap 1..12}
labels_minute_single == {integer_to_text(x) : x \in FemNumbers \cap 2..9}
labels_minute_double == {integer_to_text(x) : x \in FemNumbers \cap 10..59}

midnight(s, R) == string_map({<<<<"chatsot">>, <<"0">>, 0>>}, s, R)
\* union(*labels_hour) @ cardinal, | midnight
graph_hour(s, R) ==
    string_map({e \in time_cardinal : e[1] \in labels_hour}, s, R) \cup midnight(s, R)
\* insert("0") + NEMO_DIGIT, as a relation on the digit strings
add_leading_zero_to_double_digit == {<<<<d>>, <<"0", d>>, 0>> : d \in NEMO_DIGIT}
\* the single-digit minutes without the composition that adds the zero
graph_minute_single_map_no_zero ==
    {e \in time_cardinal : e[1] \in labels_minute_single}
graph_minute_single_map ==
    Compose({e \in time_cardinal : e[1] \in labels_minute_single},
            add_leading_zero_to_double_digit)
graph_minute_single(s, R) == string_map(graph_minute_single_map, s, R)
graph_minute_double_map == {e \in time_cardinal : e[1] \in labels_minute_double}
graph_minute_double(s, R) == string_map(graph_minute_double_map, s, R)

final_graph_hour(s, R) ==
    insert(<<QUOTE>>, graph_hour(s, insert(<<"hours:", SP, QUOTE>>, R)))

graph_minute(s, R) ==
    insert(<<"0", "0">>, R) \cup graph_minute_single(s, R) \cup graph_minute_double(s, R)

final_suffix(s, R) ==
    insert(<<QUOTE>>,
        suffix_graph(s, insert(<<"suffix:", SP, QUOTE>>, insert_space(delete_space(s, R)))))

\* closure(delete_space + delete("dakot"), 0, 1)
optional_delete_minutes_word(s, R) == R \cup delete(<<"dakot">>, s, delete_space(s, R))

graph_h_and_m(s, R) ==
    LET r1 == insert_space(delete_and(s, delete_space(s, final_graph_hour(s, R))))
        r2 == insert(<<"minutes:", SP, QUOTE>>, r1)
        r3 == graph_minute_single(s, r2) \cup graph_minute_double(s, r2)
                \cup graph_minute_verbose(s, r2)
    IN  optional_delete_minutes_word(s, insert(<<QUOTE>>, r3))

graph_special_m_to_h_suffix_time(s, R) ==
    LET r1 == insert(<<QUOTE>>, graph_minute_to_verbose(s, insert(<<"minutes:", SP, QUOTE>>, R)))
        r2 == insert_space(delete(<<"le">>, s, delete_space(s, r1)))
    IN  insert(<<QUOTE>>, to_hour_graph(s, insert(<<"hours:", SP, QUOTE>>, r2)))

\* union(graph_minute_single, graph_minute_double) @ minute_to_graph
minute_to_compose(s, R) ==
    string_map(Compose(graph_minute_single_map \cup graph_minute_double_map, minute_to_graph),
               s, R)

graph_m_to_h_suffix_time(s, R) ==
    LET r1 == insert(<<QUOTE>>, minute_to_compose(s, insert(<<"minutes:", SP, QUOTE>>, R)))
        r2 == optional_delete_minutes_word(s, r1)
        r3 == insert_space(delete(<<"le">>, s, delete_space(s, r2)))
    IN  insert(<<QUOTE>>, to_hour_graph(s, insert(<<"hours:", SP, QUOTE>>, r3)))

\* graph_h with the defaulted minutes field emitted ahead of the hour
graph_h_minutes_first(s, R) ==
    LET r0 == delete_zero_or_one_space(s, optional_time_prefix_graph(s, R))
        r1 == insert(<<"minutes:", SP, QUOTE, "0", "0", QUOTE, SP>>, r0)
    IN  final_suffix(s, delete_extra_space(s, final_graph_hour(s, r1)))

graph_h(s, R) ==
    LET r1 == final_graph_hour(s, delete_zero_or_one_space(s, optional_time_prefix_graph(s, R)))
        r2 == insert(<<"minutes:", SP, QUOTE>>, delete_extra_space(s, r1))
        r3 == insert(<<"0", "0">>, r2) \cup graph_minute(s, r2)
    IN  final_suffix(s, insert(<<QUOTE>>, r3))

midnight_graph(s, R) ==
    LET r1 == delete_zero_or_one_space(s, optional_time_prefix_graph(s, R))
        r2 == insert(<<QUOTE>>, midnight(s, insert(<<"hours:", SP, QUOTE>>, r1)))
        r3 == insert(<<"minutes:", SP, QUOTE>>, insert_space(r2))
    IN  insert(<<QUOTE>>, insert(<<"0", "0">>, r3) \cup graph_minute(s, r3))

graph_midnight_and_m(s, R) ==
    LET r1 == insert(<<QUOTE>>, midnight(s, insert(<<"hours:", SP, QUOTE>>, R)))
        r2 == insert(<<"minutes:", SP, QUOTE>>, insert_space(delete_and(s, delete_space(s, r1))))
        r3 == graph_minute_single(s, r2) \cup graph_minute_double(s, r2)
                \cup graph_minute_verbose(s, r2)
    IN  optional_delete_minutes_word(s, insert(<<QUOTE>>, r3))

to_midnight_verbose_graph(s, R) ==
    LET r1 == insert(<<QUOTE>>, graph_minute_to_verbose(s, insert(<<"minutes:", SP, QUOTE>>, R)))
        r2 == insert_space(delete(<<"le">>, s, delete_space(s, r1)))
    IN  insert(<<QUOTE>>, to_hour_graph(s, insert(<<"hours:", SP, QUOTE>>, r2)))

graph_m_to_midnight(s, R) ==
    LET r1 == insert(<<QUOTE>>, minute_to_compose(s, insert(<<"minutes:", SP, QUOTE>>, R)))
        r2 == optional_delete_minutes_word(s, r1)
        r3 == insert_space(delete(<<"le">>, s, delete_space(s, r2)))
    IN  insert(<<QUOTE>>, to_hour_graph(s, insert(<<"hours:", SP, QUOTE>>, r3)))

final_graph_midnight(s, R) ==
    LET r1 == delete_zero_or_one_space(s, optional_time_prefix_graph(s, R))
    IN  midnight_graph(s, r1) \cup to_midnight_verbose_graph(s, r1)
            \cup graph_m_to_midnight(s, r1) \cup graph_midnight_and_m(s, r1)

\* the suffixed alternative of final_graph (time.py 198-203)
final_graph_suffixed(s, R) ==
    LET r1 == delete_zero_or_one_space(s, optional_time_prefix_graph(s, R))
    IN  final_suffix(s, graph_h_and_m(s, r1) \cup graph_special_m_to_h_suffix_time(s, r1)
                            \cup graph_m_to_h_suffix_time(s, r1))

time_final_graph(s, R) ==
    final_graph_suffixed(s, R) \cup graph_h(s, R) \cup final_graph_midnight(s, R)

\* GraphFst.add_tokens, around a grammar's configurations
add_tokens_open(name, R) == insert(<<name, SP, LBRACE, SP>>, R)
add_tokens_close(R) == insert(<<SP, RBRACE>>, R)

TimeFst(s, R) == add_tokens_close(time_final_graph(s, add_tokens_open("time", R)))

\* ---------------------------------------------------------- DateFst
\* cardinal.graph_two_digit: readings of numbers below 100
graph_two_digit ==
    { <<<<"echad">>, <<"1">>, 0>>, <<<<"asara">>, <<"1", "0">>, 0>>,
      <<<<"tsha", SP, "esre">>, <<"1", "9">>, 0>>, <<<<"esrim">>, <<"2", "0">>, 0>> }
\* ordinal.graph: ordinal readings
ordinal_graph_map == {<<<<"rishon">>, <<"1">>, 0>>, <<<<"asiri">>, <<"1", "0">>, 0>>}
\* cardinal.graph_thousands: thousands-scale readings
Y1983 == <<"elef", SP, "tsha", SP, "meot", SP, "shmonim", SP, "ve", "shalosh">>
Y2012 == <<"alpayim", SP, "ve", "shteym", SP, "esre">>
graph_thousands ==
    {<<Y1983, <<"1", "9", "8", "3">>, 0>>, <<Y2012, <<"2", "0", "1", "2">>, 0>>}
\* data/months.tsv: month names, kept as text
months_tsv == {<<<<m>>, <<m>>, 0>> : m \in {"merts", "may", "yuni", "yanuar"}}
\* data/months_name2number.tsv, inverted: month name to number
months_name2number_inverted ==
    { <<<<"yanuar">>, <<"1">>, 0>>, <<<<"merts">>, <<"3">>, 0>>,
      <<<<"may">>, <<"5">>, 0>>, <<<<"yuni">>, <<"6">>, 0>> }
\* data/months_number2number.tsv, inverted: spoken month number to number
months_number2number_inverted ==
    {<<<<"chamishi">>, <<"5">>, 0>>, <<<<"shishi">>, <<"6">>, 0>>}

_get_month_name_graph(s, R) == string_map(months_tsv, s, R)

\* _get_year_graph(graph_two_digits, graph_thousands)
_get_year_graph(s, R) ==
    string_map(graph_two_digit, s, delete_space(s, string_map(graph_two_digit, s, R)))
        \cup string_map(graph_thousands, s, R)

prefix_graph(s, R) == string_map(prefix_tsv, s, R)
ordinal_graph(s, R) == string_map(ordinal_graph_map, s, R)
two_digits_graph(s, R) == string_map(graph_two_digit, s, R)

day_graph(s, R) ==
    LET r1 == insert(<<"day:", SP, QUOTE>>, R)
    IN  insert(<<QUOTE>>, add_weight(-70, two_digits_graph(s, r1) \cup ordinal_graph(s, r1)))
optional_day_prefix_graph(s, R) ==
    R \cup insert_space(insert(<<QUOTE>>,
              prefix_graph(s, insert(<<"day_prefix:", SP, QUOTE>>, R))))

month_names_graph(s, R) ==
    insert(<<QUOTE>>, _get_month_name_graph(s, insert(<<"month:", SP, QUOTE>>, R)))
month_name2number_graph(s, R) ==
    insert(<<QUOTE>>, string_map(months_name2number_inverted, s,
                                 insert(<<"month:", SP, QUOTE>>, R)))
month_number2number_graph(s, R) ==
    insert(<<QUOTE>>, string_map(months_number2number_inverted, s,
                                 insert(<<"month:", SP, QUOTE>>, R)))
all_month_graph(s, R) == month_name2number_graph(s, R) \cup month_number2number_graph(s, R)

month_prefix_graph(s, R) ==
    insert_space(insert(<<QUOTE>>, prefix_graph(s, insert(<<"month_prefix:", SP, QUOTE>>, R))))
optional_month_prefix_graph(s, R) == R \cup month_prefix_graph(s, R)

year_graph(s, R) == _get_year_graph(s, R)
graph_year(s, R) ==
    insert(<<QUOTE>>, year_graph(s, insert(<<"year:", SP, QUOTE>>, delete_extra_space(s, R))))

\* graph_dm that also takes a year after the month
graph_dm_optional_year(s, R) ==
    LET r1 == delete_space(s, insert_space(day_graph(s, optional_day_prefix_graph(s, R))))
        r2 == month_name2number_graph(s, optional_month_prefix_graph(s, r1))
    IN  r2 \cup graph_year(s, r2)

graph_dm(s, R) ==
    LET r1 == delete_space(s, insert_space(day_graph(s, optional_day_prefix_graph(s, R))))
    IN  month_name2number_graph(s, optional_month_prefix_graph(s, r1))

\* graph_dmy with the month prefix optional, as it is in graph_dm
graph_dmy_optional_prefix(s, R) ==
    LET r1 == delete_space(s, insert_space(day_graph(s, optional_day_prefix_graph(s, R))))
    IN  graph_year(s, all_month_graph(s, optional_month_prefix_graph(s, r1)))

graph_dmy(s, R) ==
    LET r1 == delete_space(s, insert_space(day_graph(s, optional_day_prefix_graph(s, R))))
    IN  graph_year(s, all_month_graph(s, month_prefix_graph(s, r1)))

graph_my(s, R) == graph_year(s, month_names_graph(s, optional_month_prefix_graph(s, R)))

optional_prefix_graph(s, R) == R \cup prefix_graph(s, R)
year_only_prefix(s, R) ==
    LET r1 == optional_prefix_graph(s, R)
    IN  accep(<<"shana">>, s, r1) \cup accep(<<"shnat">>, s, r1)

graph_y_only(s, R) ==
    graph_year(s, insert(<<QUOTE>>,
        year_only_prefix(s, insert(<<"year_only_prefix:", SP, QUOTE>>, R))))

date_final_graph(s, R) ==
    graph_dm(s, R) \cup graph_dmy(s, R) \cup graph_my(s, R) \cup graph_y_only(s, R)

DateFst(s, R) == add_tokens_close(date_final_graph(s, add_tokens_open("date", R)))

\* ------------------------------------------ GraphFst.delete_tokens, convert_space
\* the output side rewritten by cdrewrite(cross(a, b), "", "", NEMO_SIGMA)
Rewrite(a, b, o) == [i \in 1..Len(o) |-> IF o[i] = a THEN b ELSE o[i]]

\* convert_space(fst): fst @ cdrewrite(cross(" ", NBSP)), on the string o fst emits
convert_space(o) == Rewrite(NEMO_SPACE, NEMO_NON_BREAKING_SPACE, o)

\* delete_tokens without its final rewrite of the non-breaking spaces
delete_tokens_close_no_rewrite(s, R) == delete(<<RBRACE>>, s, delete_space(s, R))

\* delete_tokens, before the wrapped fst: the name and the opening brace
delete_tokens_open(name, s, R) ==
    delete_space(s, delete(<<LBRACE>>, s, delete_space(s, delete(<<name>>, s, R))))
\* delete_tokens, after the wrapped fst: the closing brace, and the rewrite of
\* every non-breaking space of the result
delete_tokens_close(s, R) ==
    {[r EXCEPT !.out = Rewrite(NBSP, SP, @)] : r \in delete(<<RBRACE>>, s, delete_space(s, R))}

\* ------------------------------------------------ MeasureFst (verbalizer)
\* pynini.closure(C', 1) for the class C' of all characters but those of C
RECURSIVE closure_not(_, _, _)
closure_not(C, s, R) ==
    LET r1 == accep_not(C, s, R)
    IN  IF r1 = {} THEN {} ELSE r1 \cup closure_not(C, s, r1)
\* pynini.closure(C, 1) for a class C
RECURSIVE closure_of(_, _, _)
closure_of(C, s, R) ==
    LET r1 == accep_char(C, s, R)
    IN  IF r1 = {} THEN {} ELSE r1 \cup closure_of(C, s, r1)

\* digits grouped in threes from the right, groups separated by a comma
RECURSIVE Commas(_)
Commas(d) ==
    IF Len(d) <= 3 THEN d
    ELSE Commas(SubSeq(d, 1, Len(d) - 3)) \o <<",">> \o SubSeq(d, Len(d) - 2, Len(d))
\* verbalizers/cardinal.py numbers: integer: "<digits>" to the grouped digits
cardinal_numbers(s, R) ==
    LET r1 == delete(<<QUOTE>>, s, delete_space(s, delete(<<"integer:">>, s, R)))
        Run(r) == {k \in 1..(Len(s) - r.pos) :
                      /\ \A i \in 0..(k - 1) : s[r.pos + i] \in NEMO_DIGIT
                      /\ s[r.pos + k] = QUOTE}
    IN  UNION {{[r EXCEPT !.pos = @ + k + 1,
                          !.out = @ \o Commas(SubSeq(s, r.pos, r.pos + k - 1))] : k \in Run(r)}
               : r \in r1}
\* verbalizers/decimal.py numbers: integer_part and fractional_part around a point
decimal_numbers(s, R) ==
    LET r1 == delete(<<QUOTE>>, s, closure_of(NEMO_DIGIT, s,
                delete(<<QUOTE>>, s, delete_space(s, delete(<<"integer_part:">>, s, R)))))
        r2 == insert(<<".">>, delete_space(s, r1))
    IN  delete(<<QUOTE>>, s, closure_of(NEMO_DIGIT, s,
            delete(<<QUOTE>>, s, delete_space(s, delete(<<"fractional_part:">>, s, r2)))))

optional_prefix(s, R) ==
    LET r1 == delete(<<QUOTE>>, s, delete_space(s, delete(<<"prefix:">>, s, R)))
        r2 == insert(<<"-">>, closure_not({QUOTE}, s, r1))
    IN  R \cup delete_space(s, delete(<<QUOTE>>, s, r2))

optional_sign(s, R) ==
    LET r1 == delete(<<QUOTE>>, s, delete_space(s, delete(<<"negative:">>, s, R)))
    IN  R \cup delete_space(s, delete(<<QUOTE>>, s, accep(<<"-">>, s, r1)))

graph_decimal(s, R) ==
    delete(<<RBRACE>>, s, delete_space(s,
        decimal_numbers(s, delete_space(s, delete(<<"decimal", SP, LBRACE>>, s, R)))))

graph_cardinal(s, R) ==
    delete(<<RBRACE>>, s, delete_space(s,
        cardinal_numbers(s, delete_space(s, delete(<<"cardinal", SP, LBRACE>>, s, R)))))

unit(s, R) ==
    LET r1 == delete(<<QUOTE>>, s, delete_space(s, delete(<<"units:">>, s, R)))
    IN  delete_space(s, delete(<<QUOTE>>, s, closure_not({SP}, s, r1)))

\* spaced_unit reading the units field as well
spaced_unit_any_field(s, R) ==
    LET r0 == delete(<<"spaced_units:">>, s, R) \cup delete(<<"units:">>, s, R)
        r1 == delete(<<QUOTE>>, s, delete_space(s, r0))
    IN  delete_space(s, delete(<<QUOTE>>, s, closure_not({SP}, s, r1)))

spaced_unit(s, R) ==
    LET r1 == delete(<<QUOTE>>, s, delete_space(s, delete(<<"spaced_units:">>, s, R)))
    IN  delete_space(s, delete(<<QUOTE>>, s, closure_not({SP}, s, r1)))

numbers_units(s, R) ==
    LET r1 == delete_space(s, R)
    IN  unit(s, r1) \cup spaced_unit(s, insert(<<SP>>, r1))
numbers_graph(s, R) == numbers_units(s, graph_cardinal(s, R) \cup graph_decimal(s, R))

one_units(s, R) == unit(s, R) \cup spaced_unit(s, insert(<<SP>>, R))

\* one_graph with the digit inserted after the unit instead of before it
one_graph_digit_last(s, R) ==
    insert(<<"1">>,
        delete(<<"cardinal", SP, LBRACE, SP, "integer:", SP, QUOTE, "1", QUOTE, SP, RBRACE>>, s,
            one_units(s, delete_space(s, R))))

one_graph(s, R) ==
    delete(<<"cardinal", SP, LBRACE, SP, "integer:", SP, QUOTE, "1", QUOTE, SP, RBRACE>>, s,
        one_units(s, insert(<<"1">>, delete_space(s, R))))

measure_graph_verbalize(s, R) ==
    LET r1 == optional_sign(s, optional_prefix(s, R))
    IN  numbers_graph(s, r1) \cup one_graph(s, r1)

MeasureFst(s, R) ==
    delete_tokens_close(s, measure_graph_verbalize(s, delete_tokens_open("measure", s, R)))

\* ------------------------------------- the other taggers ClassifyFst unites
NEMO_PUNCT == {",", ".", "!", "?", ";", ":", "-"}

\* CardinalFst().fst: cardinal { integer: "<digits>" }
cardinal_graph(s, R) ==
    add_tokens_close(insert(<<QUOTE>>,
        string_map(graph_no_exception \cup graph_two_digit \cup graph_thousands, s,
            insert(<<"integer:", SP, QUOTE>>, add_tokens_open("cardinal", R)))))

\* DecimalFst(cardinal).fst: decimal { integer_part: ".." fractional_part: ".." }
decimal_graph(s, R) ==
    LET r1 == insert(<<QUOTE>>, string_map(graph_two_digit, s,
                insert(<<"integer_part:", SP, QUOTE>>, add_tokens_open("decimal", R))))
        r2 == delete_space(s, delete(<<"nekuda">>, s, delete_space(s, r1)))
    IN  add_tokens_close(insert(<<QUOTE>>, string_map(graph_two_digit, s,
            insert(<<SP, "fractional_part:", SP, QUOTE>>, r2))))

\* MeasureFst(cardinal, decimal).fst, the tagger: measure { cardinal { .. } units: ".." }
measure_graph(s, R) ==
    LET r1 == insert(<<QUOTE, SP, RBRACE>>, string_map(graph_two_digit, s,
                insert(<<"cardinal", SP, LBRACE, SP, "integer:", SP, QUOTE>>,
                       add_tokens_open("measure", R))))
        r2 == cross(<<"achuz">>, <<"%">>, s, delete_extra_space(s, r1))
    IN  add_tokens_close(insert(<<QUOTE>>,
            UNION {{[q EXCEPT !.out =
                        SubSeq(@, 1, Len(@) - 1) \o <<"units:", SP, QUOTE>> \o <<"%">>] : q \in {x}}
                    : x \in r2}))

\* WordFst().fst: word { name: "<the characters up to the next whitespace>" }
word_graph(s, R) ==
    add_tokens_close(insert(<<QUOTE>>,
        closure_not(NEMO_WHITE_SPACE, s, insert(<<"name:", SP, QUOTE>>,
            add_tokens_open("word", R)))))

\* PunctuationFst().fst: punct { name: "<one punctuation mark>" }
punct_graph(s, R) ==
    add_tokens_close(insert(<<QUOTE>>,
        accep_char(NEMO_PUNCT, s, insert(<<"name:", SP, QUOTE>>,
            add_tokens_open("punct", R)))))

\* WhiteListFst(input_file).fst over the lexicon wl: whitelist { name: "<written form>" }
whitelist_graph(wl, s, R) ==
    add_tokens_close(insert(<<QUOTE>>,
        string_map({<<e[1], convert_space(e[2]), e[3]>> : e \in wl}, s,
            insert(<<"name:", SP, QUOTE>>, add_tokens_open("whitelist", R)))))

\* -------------------------------------------------------- ClassifyFst
WeightWhitelist == 101
WeightTime == 110
WeightDate == 109
WeightDecimal == 110
WeightMeasure == 110
WeightCardinal == 110
WeightWord == 10000
WeightPunct == 110

classify(wl, s, R) ==
    add_weight(WeightWhitelist, whitelist_graph(wl, s, R))
        \cup add_weight(WeightTime, TimeFst(s, R))
        \cup add_weight(WeightDate, DateFst(s, R))
        \cup add_weight(WeightDecimal, decimal_graph(s, R))
        \cup add_weight(WeightMeasure, measure_graph(s, R))
        \cup add_weight(WeightCardinal, cardinal_graph(s, R))
        \cup add_weight(WeightWord, word_graph(s, R))

punct(s, R) ==
    insert(<<SP, RBRACE>>,
        add_weight(WeightPunct, punct_graph(s, insert(<<"tokens", SP, LBRACE, SP>>, R))))
token(wl, s, R) ==
    insert(<<SP, RBRACE>>, classify(wl, s, insert(<<"tokens", SP, LBRACE, SP>>, R)))

\* pynini.closure(punct + insert(" "))
RECURSIVE punct_before(_, _)
punct_before(s, R) ==
    IF R = {} THEN {} ELSE R \cup punct_before(s, insert(<<SP>>, punct(s, R)))
\* pynini.closure(insert(" ") + punct)
RECURSIVE punct_after(_, _)
punct_after(s, R) ==
    IF R = {} THEN {} ELSE R \cup punct_after(s, punct(s, insert(<<SP>>, R)))

\* a punctuation mark and the token after it with no space inserted between them
token_plus_punct_no_space(wl, s, R) ==
    punct_after(s, token(wl, s, R \cup punct(s, R)))
token_plus_punct(wl, s, R) == punct_after(s, token(wl, s, punct_before(s, R)))

\* pynini.closure(delete_extra_space + token_plus_punct)
RECURSIVE more_tokens(_, _, _)
more_tokens(wl, s, R) ==
    IF R = {} THEN {}
    ELSE R \cup more_tokens(wl, s, token_plus_punct(wl, s, delete_extra_space(s, R)))

\* graph = delete_space + token_plus_punct + closure(...) + delete_space
ClassifyFst(wl, s, R) ==
    delete_space(s, more_tokens(wl, s, token_plus_punct(wl, s, delete_space(s, R))))

\* ------------------------------------------------------------ inputs
Range(s) == {s[i] : i \in 1..Len(s)}

RECURSIVE Spaces(_)
Spaces(n) == IF n = 0 THEN <<>> ELSE <<SP>> \o Spaces(n - 1)
\* the whitespace runs put between words
WsRuns == {Spaces(n) : n \in 1..MaxWs}

\* Spoken time phrases and near misses: [prefix] word [minutes-word]
\* [connective word [minutes-word]] [suffix], one whitespace run g between words.
TimeWords ==
    {<<"shesh">>, <<"shalosh">>, <<"chatsot">>, <<"reva">>, <<"esrim">>, <<"chamisha">>,
     <<"daka">>}
TimePrefixes == {<<>>, <<"be">>, <<"be", "ha">>}
TimeTails(g) ==
    {<<>>} \cup {c \o b \o d : c \in {g, g \o <<"ve">>, g \o <<"le">>},
                               b \in TimeWords,
                               d \in {<<>>, g \o <<"dakot">>}}
TimeInputs ==
    UNION {{p \o a \o d \o t \o x :
                p \in TimePrefixes, a \in TimeWords, d \in {<<>>, g \o <<"dakot">>},
                t \in TimeTails(g), x \in {<<>>, g \o <<"baerev">>}} : g \in WsRuns}

\* Spoken date phrases and near misses: [prefix] word [[prefix] month] [year]
DateYears == {Y1983, Y2012, <<"esrim", SP, "esrim">>, <<"esrim">>}
DateInputs ==
    UNION {{p \o a \o m \o y :
                p \in {<<>>, <<"ha">>, <<"be">>},
                a \in {<<"echad">>, <<"rishon">>, <<"esrim">>, <<"may">>, <<"yanuar">>,
                       <<"shnat">>},
                m \in {<<>>} \cup {g \o q \o b : q \in {<<>>, <<"be">>},
                                                b \in {<<"may">>, <<"yuni">>, <<"chamishi">>}},
                y \in {<<>>} \cup {g \o z : z \in DateYears}} : g \in WsRuns}

\* Tagged measure tokens, as the tagger writes them (one space inside a field)
\* with the run g between the fields, the numeral before or after the unit.
RECURSIVE SeqsUpTo(_, _)
SeqsUpTo(A, n) ==
    IF n = 0 THEN {<<>>}
    ELSE LET S == SeqsUpTo(A, n - 1) IN S \cup {Append(x, a) : x \in S, a \in A}
UnitChars == {"%", "mem", NBSP}
UnitValues == SeqsUpTo(UnitChars, MaxVal) \ {<<>>}
Field(k, v) == <<k, SP, QUOTE>> \o v \o <<QUOTE>>
CardinalToken(d) == <<"cardinal", SP, LBRACE, SP>> \o Field("integer:", d) \o <<SP, RBRACE>>
DecimalToken(i, f) ==
    <<"decimal", SP, LBRACE, SP>> \o Field("integer_part:", i) \o <<SP>>
        \o Field("fractional_part:", f) \o <<SP, RBRACE>>
MeasureNumerals ==
    {CardinalToken(<<"3">>), CardinalToken(<<"1">>), CardinalToken(<<"1", "0", "0", "0">>),
     DecimalToken(<<"3">>, <<"5">>)}
MeasureInputs ==
    UNION {{<<"measure">> \o g \o <<LBRACE>> \o g \o p \o n \o b \o g \o <<RBRACE>> :
                p \in {<<>>, Field("prefix:", <<"le">>) \o g},
                n \in {<<>>, Field("negative:", <<"-">>) \o g},
                b \in UNION {{c \o g \o Field(k, v), Field(k, v) \o g \o c} :
                                c \in MeasureNumerals, k \in {"units:", "spaced_units:"},
                                v \in UnitValues}} : g \in WsRuns}

\* the documented tagged measure tokens
MeasureEx1 ==
    <<"measure", SP, LBRACE, SP>> \o CardinalToken(<<"3">>) \o <<SP>>
        \o Field("spaced_units:", <<"mem">>) \o <<SP, RBRACE>>
MeasureEx2 ==
    <<"measure", SP, LBRACE, SP>> \o Field("units:", <<"%">>) \o <<SP>>
        \o CardinalToken(<<"1">>) \o <<SP, RBRACE>>
MeasureEx3 ==
    <<"measure", SP, LBRACE, SP>> \o Field("prefix:", <<"le">>) \o <<SP>>
        \o CardinalToken(<<"3">>) \o <<SP>> \o Field("spaced_units:", <<"mem">>)
        \o <<SP, RBRACE>>

\* Body texts B for add_tokens / delete_tokens, and the grammar names
MaxBody == 3
BodyChars == {SP, NBSP, "a", RBRACE}
Bodies == SeqsUpTo(BodyChars, MaxBody)
TokenNames == {"measure", "time"}

\* Inputs of apply_fst: tagged measure tokens, and texts without the
\* measure { ... } structure
ApplyValid == {MeasureEx1, MeasureEx2, MeasureEx3}
ApplyMalformed ==
    { <<>>,
      <<"measure">>,
      <<"measure", SP, LBRACE, SP, RBRACE>>,
      <<"3", SP, "mem">>,
      SubSeq(MeasureEx1, 3, Len(MeasureEx1)),
      SubSeq(MeasureEx1, 1, Len(MeasureEx1) - 2),
      <<"time">> \o SubSeq(MeasureEx2, 2, Len(MeasureEx2)),
      <<"measure", SP>> \o SubSeq(MeasureEx3, 5, Len(MeasureEx3) - 2) }
ApplyInputs == ApplyValid \cup ApplyMalformed

\* Sentences: every string of at most MaxLen symbols over whitespace, a
\* punctuation mark, a digit and Hebrew words (a number, a month, midnight)
SentenceChars == {SP, NBSP, ",", "3", "echad", "may", "chatsot"}
Sentences == SeqsUpTo(SentenceChars, MaxLen)
\* the whitelist files a classifier may be built with
WhitelistEntries ==
    {<<<<"echad">>, <<"a">>, 0>>, <<<<"echad", SP, "may">>, <<"a", SP, "b">>, 0>>}
Whitelists == {{}, WhitelistEntries}
\* the sentences given to a classifier that came from the cache
CacheSentences == {<<"echad">>, <<"echad", SP, "may">>, <<"3", SP, "chatsot">>}

\* the cache directories a classifier may be given; None and "None" mean no cache
CacheDirs == {"d1", "d2"}
None == "<None>"
NoCacheDirs == {None, "None"}
\* the content of a file that does not exist
NoFile == [rule |-> "", wl |-> {}]
NoFiles == [d \in CacheDirs |-> NoFile]

\* ------------------------------------------------- the tagging of a phrase
InitTime ==
    /\ whitelist = {}
    /\ fst = "time"
    /\ pc = "ready"
    /\ text \in TimeInputs
    /\ paths = {}
    /\ console = <<>>
    /\ far_files = NoFiles
    /\ calls = <<>>

\* text @ TimeFst().fst
TagTime ==
    /\ fst = "time" /\ pc = "ready"
    /\ pc' = "applied"
    /\ paths' = Accepting(text, TimeFst(text, Start))
    /\ UNCHANGED <<whitelist, fst, text, console, far_files, calls>>

InitDate ==
    /\ whitelist = {}
    /\ fst = "date"
    /\ pc = "ready"
    /\ text \in DateInputs
    /\ paths = {}
    /\ console = <<>>
    /\ far_files = NoFiles
    /\ calls = <<>>

\* text @ DateFst(ordinal, cardinal).fst
TagDate ==
    /\ fst = "date" /\ pc = "ready"
    /\ pc' = "applied"
    /\ paths' = Accepting(text, DateFst(text, Start))
    /\ UNCHANGED <<whitelist, fst, text, console, far_files, calls>>

NextDate == TagDate
SpecDate == InitDate /\ [][NextDate]_vars

InitMeasure ==
    /\ whitelist = {}
    /\ fst = "measure"
    /\ pc = "ready"
    /\ text \in MeasureInputs
    /\ paths = {}
    /\ console = <<>>
    /\ far_files = NoFiles
    /\ calls = <<>>

\* text @ MeasureFst(decimal, cardinal).fst, the verbalizer
VerbalizeMeasure ==
    /\ fst = "measure" /\ pc = "ready"
    /\ pc' = "applied"
    /\ paths' = Accepting(text, MeasureFst(text, Start))
    /\ UNCHANGED <<whitelist, fst, text, console, far_files, calls>>

NextMeasure == VerbalizeMeasure
SpecMeasure == InitMeasure /\ [][NextMeasure]_vars

\* ---- add_tokens, then delete_tokens, around an acceptor of the body text
InitTokens ==
    /\ whitelist = {}
    /\ fst \in TokenNames
    /\ pc = "ready"
    /\ text \in Bodies
    /\ paths = {}
    /\ console = <<>>
    /\ far_files = NoFiles
    /\ calls = <<>>

\* the value transducer: an acceptor of B
value_fst(s, R) == accep(s, s, R)
\* convert_space(value_fst)
convert_space_value(s, R) ==
    UNION {{[q EXCEPT !.out = r.out \o convert_space(@)] :
                q \in value_fst(s, {[r EXCEPT !.out = <<>>]})} : r \in R}

\* B through self.add_tokens(value_fst), or self.add_tokens(convert_space(value_fst))
AddTokens ==
    /\ pc = "ready" /\ fst \in TokenNames
    /\ \/ /\ pc' = "tagged"
          /\ paths' = Accepting(text,
                  add_tokens_close(value_fst(text, add_tokens_open(fst, Start))))
       \/ /\ pc' = "tagged_converted"
          /\ paths' = Accepting(text,
                  add_tokens_close(convert_space_value(text, add_tokens_open(fst, Start))))
    /\ UNCHANGED <<whitelist, fst, text, console, far_files, calls>>

\* the body between the braces of a tagged text name { B }
TaggedBody(t) == SubSeq(t, 5, Len(t) - 2)

\* the tagged text through self.delete_tokens(acceptor of its body)
DeleteTokens ==
    /\ pc \in {"tagged", "tagged_converted"}
    /\ \E p \in paths :
          paths' = Accepting(p.out,
              delete_tokens_close(p.out,
                  accep(TaggedBody(p.out), p.out, delete_tokens_open(fst, p.out, Start))))
    /\ pc' = IF pc = "tagged" THEN "verbalized" ELSE "verbalized_converted"
    /\ UNCHANGED <<whitelist, fst, text, console, far_files, calls>>

NextTokens == AddTokens \/ DeleteTokens
SpecTokens == InitTokens /\ [][NextTokens]_vars

\* ------------------------------------------------------------ apply_fst
InitApply ==
    /\ whitelist = {}
    /\ fst = "measure"
    /\ pc = "ready"
    /\ text = <<>>
    /\ paths = {}
    /\ console = <<>>
    /\ far_files = NoFiles
    /\ calls = <<>>

ErrorLine(t) ==
    <<"Error:", SP, "No", SP, "valid", SP, "output", SP, "with", SP, "given", SP,
      "input:", SP, "'">> \o t \o <<"'">>

\* what apply_fst prints when it swallows the failure
printed_empty_on_failure(t, P) ==
    IF P = {} THEN {<<>>} ELSE {p.out : p \in shortestpath(P)}

\* the lines apply_fst may print for input t whose accepting paths are P:
\* the string of a shortest path, or the error when .string() raises FstOpError
printed(t, P) ==
    IF P = {} THEN {ErrorLine(t)} ELSE {p.out : p \in shortestpath(P)}

\* apply_fst(t, MeasureFst(...).fst)
ApplyFst ==
    /\ fst = "measure" /\ Len(console) < MaxCalls
    /\ \E t \in ApplyInputs :
          LET P == Accepting(t, MeasureFst(t, Start)) IN
          /\ text' = t
          /\ paths' = P
          /\ \E line \in printed(t, P) :
                console' = Append(console, [input |-> t, line |-> line])
    /\ pc' = "applied"
    /\ UNCHANGED <<whitelist, fst, far_files, calls>>

NextApply == ApplyFst
SpecApply == InitApply /\ [][NextApply]_vars

\* ---------------------------------------- the classification of a sentence
\* ClassifyFst(whitelist = ...), no cache
InitClassify ==
    /\ whitelist \in Whitelists
    /\ fst = "tokenize_and_classify"
    /\ pc = "ready"
    /\ text \in Sentences
    /\ paths = {}
    /\ console = <<>>
    /\ far_files = NoFiles
    /\ calls = <<>>

\* text @ ClassifyFst(...).fst
Classify ==
    /\ fst = "tokenize_and_classify" /\ pc = "ready"
    /\ pc' = "applied"
    /\ paths' = Accepting(text, ClassifyFst(whitelist, text, Start))
    /\ UNCHANGED <<whitelist, fst, text, console, far_files, calls>>

NextClassify == Classify
SpecClassify == InitClassify /\ [][NextClassify]_vars

\* ------------------------------------- ClassifyFst and its cache directory
\* far_file: the directory whose he_itn.far is used, None without a cache
far_file(cache_dir) == IF cache_dir \in NoCacheDirs THEN None ELSE cache_dir
\* far_file and os.path.exists(far_file)
exists(file, files) == file # None /\ files[file] # NoFile

\* the restore condition with overwrite_cache left out
restores_ignoring_overwrite(cache_dir, overwrite_cache, files) ==
    exists(far_file(cache_dir), files)
\* not overwrite_cache and far_file and os.path.exists(far_file)
restores(cache_dir, overwrite_cache, files) ==
    ~overwrite_cache /\ exists(far_file(cache_dir), files)

\* the grammar the else branch compiles: its whitelist lexicon is all that varies
built_fst(wl) == [rule |-> "tokenize_and_classify", wl |-> wl]

InitCache ==
    /\ whitelist = {}
    /\ fst = NoFile
    /\ pc = "start"
    /\ text = <<>>
    /\ paths = {}
    /\ console = <<>>
    /\ far_files = NoFiles
    /\ calls = <<>>

\* ClassifyFst(cache_dir, overwrite_cache, whitelist)
Construct ==
    /\ Len(calls) < MaxBuilds
    /\ \E cache_dir \in CacheDirs \cup NoCacheDirs, overwrite_cache \in BOOLEAN,
          wl \in Whitelists :
        LET call == [cache_dir |-> cache_dir, overwrite_cache |-> overwrite_cache,
                     whitelist |-> wl, before |-> far_files]
        IN
        /\ whitelist' = wl
        /\ \/ /\ restores(cache_dir, overwrite_cache, far_files)
              /\ fst' = far_files[far_file(cache_dir)]
              /\ far_files' = far_files
              /\ pc' = "restored"
              /\ calls' = Append(calls,
                    call @@ [log |-> <<"restored">>])
           \/ /\ ~restores(cache_dir, overwrite_cache, far_files)
              /\ fst' = built_fst(wl)
              /\ pc' = "built"
              /\ IF far_file(cache_dir) # None
                 THEN /\ far_files' = [far_files EXCEPT ![far_file(cache_dir)] = built_fst(wl)]
                      /\ calls' = Append(calls, call @@ [log |-> <<"creating", "saved">>])
                 ELSE /\ far_files' = far_files
                      /\ calls' = Append(calls, call @@ [log |-> <<"creating">>])
    /\ UNCHANGED <<text, paths, console>>

\* a sentence through the fst of the classifier constructed last
TagCached ==
    /\ pc \in {"restored", "built"}
    /\ \E t \in CacheSentences :
        /\ text' = t
        /\ paths' = Accepting(t, ClassifyFst(fst.wl, t, Start))
    /\ pc' = "applied"
    /\ UNCHANGED <<whitelist, fst, console, far_files, calls>>

NextCache == Construct \/ TagCached
SpecCache == InitCache /\ [][NextCache]_vars

NextTime == TagTime
SpecTime == InitTime /\ [][NextTime]_vars

\* the field names of a tagged token, in the order of emission
FieldNames ==
    {"prefix:", "hours:", "minutes:", "suffix:", "day_prefix:", "day:", "month_prefix:",
     "month:", "year:", "year_only_prefix:"}
IsFieldName(x) == x \in FieldNames
Fields(out) == SelectSeq(out, IsFieldName)
\* f lists fields in the order given by rank (a field may repeat)
InOrder(f, rank) == \A i, j \in 1..Len(f) : i < j => rank[f[i]] <= rank[f[j]]

\* --------------------------------------------------- claims: ClassifyFst
Categories == {"whitelist", "time", "date", "decimal", "measure", "cardinal", "word", "punct"}
\* the fixed weight ClassifyFst gives each category
FixedWeight == [c \in Categories |->
    CASE c = "whitelist" -> WeightWhitelist [] c = "time" -> WeightTime
      [] c = "date" -> WeightDate [] c = "decimal" -> WeightDecimal
      [] c = "measure" -> WeightMeasure [] c = "cardinal" -> WeightCardinal
      [] c = "word" -> WeightWord [] OTHER -> WeightPunct]

\* the positions where a tokens group starts, and where the group ends
TokenStarts(o) == {i \in 1..Len(o) : o[i] = "tokens"}
GroupEnd(o, i) ==
    LET later == {n \in TokenStarts(o) : n > i}
    IN  IF later = {} THEN Len(o) ELSE (CHOOSE n \in later : \A m \in later : n <= m) - 2
\* the categories of the groups, in order
TokenCats(o) == [k \in 1..Len(SelectSeq(o, LAMBDA x : x = "tokens")) |->
    LET i == CHOOSE j \in TokenStarts(o) :
                 Cardinality({n \in TokenStarts(o) : n <= j}) = k
    IN  o[i + 4]]
\* the quoted name of the word or punct group starting at i
NameAt(o, i) == SubSeq(o, i + 11, GroupEnd(o, i) - 5)
RECURSIVE NamesFrom(_, _)
NamesFrom(o, i) ==
    IF i > Len(o) THEN <<>> ELSE NameAt(o, i) \o NamesFrom(o, GroupEnd(o, i) + 2)
\* braces opened minus braces closed in o[i..j]
Bal(o, i, j) ==
    Cardinality({k \in i..j : o[k] = LBRACE}) - Cardinality({k \in i..j : o[k] = RBRACE})
\* o is tokens { ... } groups, one space between them, nothing around them
WellFormed(o) ==
    /\ Len(o) > 0 /\ o[1] = "tokens"
    /\ \A i \in TokenStarts(o) :
        LET e == GroupEnd(o, i)
        IN  /\ e >= i + 6 /\ e <= Len(o)
            /\ SubSeq(o, i, i + 3) = <<"tokens", SP, LBRACE, SP>>
            /\ o[i + 4] \in Categories
            /\ o[e] = RBRACE /\ o[e - 1] = SP
            /\ Bal(o, i, e) = 0 /\ \A k \in (i + 2)..(e - 1) : Bal(o, i, k) > 0
            /\ e < Len(o) => o[e + 1] = SP /\ o[e + 2] = "tokens"
NonSpace(s) == SelectSeq(s, LAMBDA x : x \notin NEMO_WHITE_SPACE)
\* the whitespace runs of s that have a word on both sides
InnerRuns(s) ==
    Cardinality({k \in 2..(Len(s) - 1) :
        /\ s[k] \in NEMO_WHITE_SPACE /\ s[k + 1] \notin NEMO_WHITE_SPACE
        /\ \E j \in 1..(k - 1) : s[j] \notin NEMO_WHITE_SPACE})

\* C1: every sentence over digits, Hebrew letters, punctuation and whitespace
\* has at least one accepting tagged parse.
C1_Coverage ==
    fst = "tokenize_and_classify" /\ pc = "applied" => paths # {}

\* C2: when two categories both tag the whole sentence as one token, the parse
\* of minimum total weight is of the category with the lower fixed weight.
C2_LowerFixedWeightWins ==
    fst = "tokenize_and_classify" /\ pc = "applied" =>
        \A p \in shortestpath(paths) : \A q \in paths :
            Len(TokenCats(p.out)) = 1 /\ Len(TokenCats(q.out)) = 1 =>
                FixedWeight[TokenCats(p.out)[1]] <= FixedWeight[TokenCats(q.out)[1]]

\* C3: every accepting output is a sequence of tokens { ... } groups with exactly
\* one space between groups and no whitespace before or after, whatever the
\* whitespace of the sentence; the tokens partition the sentence: in a parse
\* made of word and punct tokens the names are the sentence without its
\* whitespace, and every whitespace run between words is one separator.
C3_OutputFormat ==
    fst = "tokenize_and_classify" /\ pc = "applied" =>
        \A p \in paths :
            /\ WellFormed(p.out)
            /\ Len(TokenCats(p.out)) <= Len(NonSpace(text))
            /\ Range(TokenCats(p.out)) \subseteq {"word", "punct"} =>
                /\ NamesFrom(p.out, 1) = NonSpace(text)
                /\ Len(TokenCats(p.out)) >= InnerRuns(text) + 1

\* a sentence with a doubled space between two words, parsed as two tokens
C3_Witness ==
    /\ fst = "tokenize_and_classify" /\ pc = "applied"
    /\ Len(text) = 4 /\ text[2] = SP /\ text[3] = NBSP
    /\ \E p \in paths : TokenCats(p.out) = <<"cardinal", "word">>

\* ------------------------------------------------------ claims: TimeFst
\* a phrase that names midnight
NamesMidnight(s) == "chatsot" \in Range(s)
\* a 'to the hour' phrase: the particle "le" after the minutes, not as a prefix
ToTheHour(s) == \E i \in 2..Len(s) : s[i] = "le" /\ s[i - 1] \notin {"be", "ha", "le"}

TimeRank == [f \in FieldNames |->
    CASE f = "prefix:" -> 1 [] f = "hours:" -> 2 [] f = "minutes:" -> 3
      [] f = "suffix:" -> 4 [] OTHER -> 0]
TimeRankTo == [f \in FieldNames |->
    CASE f = "prefix:" -> 1 [] f = "minutes:" -> 2 [] f = "hours:" -> 3
      [] f = "suffix:" -> 4 [] OTHER -> 0]

\* C4: every phrase TimeFst tags either gets a suffix field or names midnight;
\* no time token without a suffix for an hour other than midnight.
C4_SuffixOrMidnight ==
    fst = "time" /\ pc = "applied" =>
        \A p \in paths : "suffix:" \in Range(p.out) \/ NamesMidnight(text)

\* C5 as stated: in every time token the fields come in the order prefix,
\* hours, minutes, suffix, in all branches.
C5_OrderAllBranches ==
    fst = "time" /\ pc = "applied" => \A p \in paths : InOrder(Fields(p.out), TimeRank)

\* C5 amended: the order is prefix, hours, minutes, suffix except in the
\* 'to the hour' phrasings, where it is prefix, minutes, hours, suffix.
C5_OrderByBranch ==
    fst = "time" /\ pc = "applied" =>
        \A p \in paths :
            InOrder(Fields(p.out), IF ToTheHour(text) THEN TimeRankTo ELSE TimeRank)

\* a 'to the hour' phrase with prefix and suffix was tagged, and an hour-first one
C5_Witness ==
    /\ fst = "time" /\ pc = "applied"
    /\ text = <<"be", "reva", SP, "le", "shesh", SP, "baerev">>
    /\ \E p \in paths : Fields(p.out) = <<"prefix:", "minutes:", "hours:", "suffix:">>

\* ------------------------------------------------------ claims: DateFst
\* the quoted value of field f of a tagged token
FieldValue(out, f) ==
    LET i == CHOOSE k \in 1..Len(out) : out[k] = f
        j == CHOOSE k \in (i + 3)..Len(out) :
                out[k] = QUOTE /\ \A l \in (i + 3)..(k - 1) : out[l] # QUOTE
    IN  SubSeq(out, i + 3, j - 1)

DateShapesDM ==
    { <<"day:", "month:">>, <<"day_prefix:", "day:", "month:">>,
      <<"day:", "month_prefix:", "month:">>,
      <<"day_prefix:", "day:", "month_prefix:", "month:">> }
DateShapesDMY ==
    { <<"day:", "month_prefix:", "month:", "year:">>,
      <<"day_prefix:", "day:", "month_prefix:", "month:", "year:">> }
DateShapesMY == {<<"month:", "year:">>, <<"month_prefix:", "month:", "year:">>}
DateShapesY == {<<"year_only_prefix:", "year:">>}

DateEx1 == <<"echad", SP, "be", "may", SP>> \o Y1983
DateEx1Out ==
    <<"date", SP, LBRACE, SP, "day:", SP, QUOTE, "1", QUOTE, SP,
      "month_prefix:", SP, QUOTE, "be", QUOTE, SP, "month:", SP, QUOTE, "5", QUOTE, SP,
      "year:", SP, QUOTE, "1", "9", "8", "3", QUOTE, SP, RBRACE>>
DateEx2 == <<"ha", "rishon", SP, "be", "yuni", SP>> \o Y2012
DateEx2Out ==
    <<"date", SP, LBRACE, SP, "day_prefix:", SP, QUOTE, "ha", QUOTE, SP,
      "day:", SP, QUOTE, "1", QUOTE, SP,
      "month_prefix:", SP, QUOTE, "be", QUOTE, SP, "month:", SP, QUOTE, "6", QUOTE, SP,
      "year:", SP, QUOTE, "2", "0", "1", "2", QUOTE, SP, RBRACE>>

\* C6: a date token lists its fields in the order day_prefix, day, month_prefix,
\* month, year, each at most once and only those of its branch: day+month has a
\* numeric month and no year, day+month+year always has month_prefix and year,
\* month+year keeps the month name, year-only is year_only_prefix then year;
\* the two documented phrases give the documented tokens.
C6_DateFields ==
    fst = "date" /\ pc = "applied" =>
        /\ \A p \in paths :
            LET f == Fields(p.out) IN
            /\ f \in DateShapesDM \cup DateShapesDMY \cup DateShapesMY \cup DateShapesY
            /\ f \in DateShapesDM \cup DateShapesDMY =>
                    Range(FieldValue(p.out, "month:")) \subseteq NEMO_DIGIT
            /\ f \in DateShapesMY =>
                    /\ Range(FieldValue(p.out, "month:")) \subseteq Range(text)
                    /\ Range(FieldValue(p.out, "month:")) \cap NEMO_DIGIT = {}
        /\ text = DateEx1 => {p.out : p \in paths} = {DateEx1Out}
        /\ text = DateEx2 => {p.out : p \in paths} = {DateEx2Out}

\* the documented day+month+year phrase with a day prefix was tagged
C6_Witness ==
    /\ fst = "date" /\ pc = "applied"
    /\ text = DateEx2
    /\ \E p \in paths : Fields(p.out) \in DateShapesDMY

\* --------------------------------------- claims: MeasureFst (verbalizer)
Unbreak(v) == Rewrite(NBSP, SP, v)
EndsWith(o, v) == Len(o) >= Len(v) /\ SubSeq(o, Len(o) - Len(v) + 1, Len(o)) = v
\* the unit value of a tagged measure token, as rendered
UnitText(s) ==
    Unbreak(FieldValue(s, IF "units:" \in Range(s) THEN "units:" ELSE "spaced_units:"))
\* the numeral of a tagged measure token, as rendered
NumeralText(s) ==
    IF "integer:" \in Range(s) THEN Commas(FieldValue(s, "integer:"))
    ELSE FieldValue(s, "integer_part:") \o <<".">> \o FieldValue(s, "fractional_part:")
Markup ==
    {QUOTE, LBRACE, RBRACE, "measure", "cardinal", "decimal", "integer:", "integer_part:",
     "fractional_part:", "units:", "spaced_units:", "prefix:", "negative:"}

\* C7: the unit is placed by its field alone: a units value directly after the
\* numeral's last digit, a spaced_units value after exactly one space, whatever
\* the numeral (cardinal, decimal, the literal 1 after the unit).
C7_UnitPlacement ==
    fst = "measure" /\ pc = "applied" =>
        /\ \A p \in paths :
            LET v == UnitText(text)
                n == Len(p.out) - Len(v)
            IN  /\ EndsWith(p.out, v)
                /\ IF "units:" \in Range(text)
                   THEN n >= 1 /\ p.out[n] \in NEMO_DIGIT
                   ELSE n >= 2 /\ p.out[n] = SP /\ p.out[n - 1] \in NEMO_DIGIT
        /\ text = MeasureEx1 => {p.out : p \in paths} = {<<"3", SP, "mem">>}
        /\ text = MeasureEx2 => {p.out : p \in paths} = {<<"1", "%">>}

\* the unit-first token with the literal 1 and a spaced unit was rendered
C7_Witness ==
    /\ fst = "measure" /\ pc = "applied"
    /\ "spaced_units:" \in Range(text)
    /\ Len(text) > 8 /\ text[5] = "spaced_units:"
    /\ paths # {}

\* C8: the rendering is prefix and hyphen, sign, numeral, unit, in this order,
\* also when the unit precedes the wrapper of the literal 1; it holds no tag
\* name, quote or brace.
C8_RenderingOrder ==
    fst = "measure" /\ pc = "applied" =>
        /\ \A p \in paths :
            /\ p.out =
                  (IF "prefix:" \in Range(text)
                      THEN FieldValue(text, "prefix:") \o <<"-">> ELSE <<>>)
                  \o (IF "negative:" \in Range(text) THEN <<"-">> ELSE <<>>)
                  \o NumeralText(text)
                  \o (IF "units:" \in Range(text) THEN <<>> ELSE <<SP>>)
                  \o UnitText(text)
            /\ Range(p.out) \cap Markup = {}
        /\ text = MeasureEx3 => {p.out : p \in paths} = {<<"le", "-", "3", SP, "mem">>}

\* a token with prefix, sign and the unit before the literal 1 was rendered
C8_Witness ==
    /\ fst = "measure" /\ pc = "applied"
    /\ "prefix:" \in Range(text) /\ "negative:" \in Range(text)
    /\ \E p \in paths : p.out = <<"le", "-", "-", "1", "%">>

\* ------------------------------------ claims: delete_tokens, apply_fst
\* C9: delete_tokens undoes add_tokens: from name { B } it gives B without the
\* name, the braces and the whitespace around them, every non-breaking space
\* turned into a space; with convert_space on the tagger side the spaces of a
\* value come back as they were.
C9_DeleteInvertsAdd ==
    pc \in {"verbalized", "verbalized_converted"} =>
        /\ {p.out : p \in paths} = {Unbreak(text)}
        /\ NBSP \notin Range(text) => {p.out : p \in paths} = {text}

\* a value with a space went through convert_space, add_tokens and delete_tokens
C9_Witness ==
    /\ pc = "verbalized_converted"
    /\ text = <<"a", SP, "a">>
    /\ {p.out : p \in paths} = {text}

\* a text with the envelope name { ... } of the grammar
HasEnvelope(name, t) ==
    /\ Len(t) >= 3
    /\ t[1] = name
    /\ \E i \in 2..Len(t) : t[i] = LBRACE /\ \A j \in 2..(i - 1) : t[j] \in NEMO_WHITE_SPACE
    /\ t[Len(t)] = RBRACE
IsErrorLine(l) == Len(l) > 0 /\ l[1] = "Error:"

\* C10: a text without the matching name { ... } structure has no accepting
\* path, and apply_fst then prints the error with the text in it, never an empty
\* or partial output; the calls are independent: after a failure a valid input
\* is still rendered.
C10_ExplicitFailure ==
    \A i \in 1..Len(console) :
        LET c == console[i]
            P == Accepting(c.input, MeasureFst(c.input, Start))
        IN  /\ ~HasEnvelope("measure", c.input) => P = {}
            /\ P = {} => c.line = ErrorLine(c.input)
            /\ P # {} => c.line \in {p.out : p \in P} /\ ~IsErrorLine(c.line)
            /\ c.input \in ApplyValid => ~IsErrorLine(c.line) /\ c.line # <<>>

\* a failure followed by a successful call
C10_Witness ==
    /\ Len(console) = 2
    /\ ~HasEnvelope("measure", console[1].input) /\ IsErrorLine(console[1].line)
    /\ console[2].input = MeasureEx3 /\ console[2].line = <<"le", "-", "3", SP, "mem">>

\* ------------------------------------------- claims: the classifier cache
\* the he_itn.far files right after construction i
FilesAfter(i) == IF i < Len(calls) THEN calls[i + 1].before ELSE far_files
Built(c) == "creating" \in Range(c.log)

\* C11: with a cache directory whose he_itn.far exists and overwrite_cache
\* false the classifier is restored, nothing is built and the file is left as it
\* is; with the file missing or overwrite_cache true the grammars are built and
\* written to the file; with cache_dir None or "None" the grammars are built and
\* no file is read or written.  So per directory at most one construction with
\* overwrite_cache false builds the grammars.
C11_BuildOnce ==
    /\ \A i \in 1..Len(calls) :
        LET c == calls[i] IN
        IF c.cache_dir \in NoCacheDirs
        THEN c.log = <<"creating">> /\ FilesAfter(i) = c.before
        ELSE IF c.before[c.cache_dir] # NoFile /\ ~c.overwrite_cache
        THEN c.log = <<"restored">> /\ FilesAfter(i) = c.before
        ELSE /\ c.log = <<"creating", "saved">>
             /\ FilesAfter(i) = [c.before EXCEPT ![c.cache_dir] = built_fst(c.whitelist)]
    /\ \A d \in CacheDirs :
        Cardinality({i \in 1..Len(calls) :
            calls[i].cache_dir = d /\ ~calls[i].overwrite_cache /\ Built(calls[i])}) <= 1

\* a second construction with the same directory restored what the first wrote
C11_Witness ==
    /\ Len(calls) = 2
    /\ calls[1].cache_dir = "d1" /\ calls[1].log = <<"creating", "saved">>
    /\ calls[2].cache_dir = "d1" /\ ~calls[2].overwrite_cache
    /\ calls[2].log = <<"restored">>
    /\ far_files["d1"] = built_fst(calls[1].whitelist)

\* C12: a classifier constructed with whitelist W tags every sentence as a
\* classifier freshly built with W, whatever the cache directory holds.
C12_CachedAsFresh ==
    pc = "applied" /\ calls # <<>> =>
        paths = Accepting(text, ClassifyFst(whitelist, text, Start))

\* ------------------------------------------- claims: DateFst, TimeFst
\* the branches of DateFst's final_graph that accept the phrase s
DateBranches(s) ==
    {b \in {"dm", "dmy", "my", "y_only"} :
        Accepting(s,
            CASE b = "dm" -> graph_dm(s, Start)
              [] b = "dmy" -> graph_dmy(s, Start)
              [] b = "my" -> graph_my(s, Start)
              [] OTHER -> graph_y_only(s, Start)) # {}}

\* C13: no phrase is accepted by more than one of graph_dm, graph_dmy, graph_my
\* and graph_y_only, and an accepted phrase has exactly one tagged output.
C13_BranchesExclusive ==
    fst = "date" /\ pc = "applied" =>
        /\ Cardinality(DateBranches(text)) <= 1
        /\ Cardinality({p.out : p \in paths}) <= 1
        /\ paths # {} <=> DateBranches(text) # {}

\* a day, month and year phrase whose day and month alone are a date as well
C13_Witness ==
    /\ fst = "date" /\ pc = "applied"
    /\ DateBranches(text) = {"dmy"} /\ Cardinality(paths) >= 1
    /\ \E k \in 1..(Len(text) - 1) : DateBranches(SubSeq(text, 1, k)) = {"dm"}

\* the number and minute words of a spoken time phrase, in order
SpokenWords(s) == SelectSeq(s, LAMBDA x : <<x>> \in TimeWords)
\* the minutes a word stands for
SpokenMinutes(w) ==
    CASE w = "reva" -> 15 [] w = "esrim" -> 20 [] w = "chamisha" -> 5 [] w = "daka" -> 1
      [] w = "shesh" -> 6 [] w = "shalosh" -> 3 [] OTHER -> 0
TwoDigits(n) == <<Digit(n \div 10), Digit(n % 10)>>

\* C14: the minutes value of a time token is exactly two digits: 00 without a
\* minute phrase, the spoken minutes with a leading zero below ten, and in the
\* 'to the hour' branches the complement to sixty of the spoken minutes.
C14_MinutesTwoDigits ==
    fst = "time" /\ pc = "applied" =>
        \A p \in paths :
            LET m == FieldValue(p.out, "minutes:")
                W == SpokenWords(text)
            IN  /\ Len(m) = 2 /\ Range(m) \subseteq NEMO_DIGIT
                /\ m = IF ToTheHour(text) THEN TwoDigits(60 - SpokenMinutes(W[1]))
                       ELSE IF Len(W) = 1 THEN <<"0", "0">>
                       ELSE TwoDigits(SpokenMinutes(W[2]))

\* six and three minutes in the evening: the single digit got its zero
C14_Witness ==
    /\ fst = "time" /\ pc = "applied"
    /\ SpokenWords(text) = <<"shesh", "shalosh">> /\ "ve" \in Range(text)
    /\ \E p \in paths : FieldValue(p.out, "minutes:") = <<"0", "3">>

\* how many times the field f occurs in the tagged text
Occurrences(out, f) == Cardinality({i \in 1..Len(out) : out[i] = f})

\* C15: a time token has hours and minutes exactly once, and prefix and suffix
\* at most once, also in the midnight family where the optional prefix is read
\* by final_graph_midnight and by midnight_graph.
C15_FieldsOnce ==
    fst = "time" /\ pc = "applied" =>
        \A p \in paths :
            /\ Occurrences(p.out, "hours:") = 1
            /\ Occurrences(p.out, "minutes:") = 1
            /\ Occurrences(p.out, "prefix:") <= 1
            /\ Occurrences(p.out, "suffix:") <= 1

====
